---- MODULE Spec2Model ----
(***************************************************************************)
(* Model of the verdict builders, the settings-validation dispatcher and   *)
(* the protocol-version responder of src/lib.rs.                           *)
(*                                                                         *)
(* A byte payload is modelled as the sequence of JSON tokens it lexes to:  *)
(*   [k |-> "p", p |-> c]   punctuation  { } [ ] : ,                       *)
(*   [k |-> "s", s |-> s]   a string literal, s its UTF-8 bytes            *)
(*   [k |-> "n", n |-> n]   a number literal                               *)
(*   [k |-> "w", w |-> w]   one of the words true, false, null             *)
(*   [k |-> "x", x |-> b]   a byte that is not valid UTF-8                 *)
(*   [k |-> "u", u |-> c]   U+FFFD, only in text rendered from bytes       *)
(* serde_json::to_vec writes such a sequence and serde_json::from_slice    *)
(* parses one; neither is the identity.                                    *)
(***************************************************************************)
EXTENDS Integers, Sequences, FiniteSets, TLC

VARIABLES op, args, result, calls

vars == <<op, args, result, calls>>

----------------------------------------------------------------------------
(* Bounds of the model *)

MaxWarnings == 2
MaxAnnotations == 2
MaxDocDepth == 1
MaxJunk == 1
MaxCalls == 3

(* Program constant: the largest u16, the type of `code` *)
U16Max == 65535

----------------------------------------------------------------------------
(* Option<T> and Result<T, E>.  In every tagged value of this module the
   payload of a variant has a field name of its own, so that two values of
   different variants are different records whatever they hold. *)

None == [some |-> FALSE]
Some(x) == [some |-> TRUE, v |-> x]

Ok(x) == [ok |-> TRUE, v |-> x]
Err(e) == [ok |-> FALSE, err |-> e]

----------------------------------------------------------------------------
(* Tokens *)

P(c) == [k |-> "p", p |-> c]
S(s) == [k |-> "s", s |-> s]
N(n) == [k |-> "n", n |-> n]
W(w) == [k |-> "w", w |-> w]
InvalidByte == [k |-> "x", x |-> "0xFF"]
ReplacementChar == [k |-> "u", u |-> "U+FFFD"]

(* serde_json::Value *)
JNull == [t |-> "null"]
JBool(b) == [t |-> "bool", bool |-> b]
JNum(n) == [t |-> "num", num |-> n]
JStr(s) == [t |-> "str", str |-> s]
JArr(q) == [t |-> "arr", arr |-> q]
JObj(m) == [t |-> "obj", obj |-> m]

(* One entry of a map: serde_json::Map<String, Value> or HashMap<String, String> *)
KV(key, val) == [key |-> key, val |-> val]

(* A Rust String is modelled as the sequence of its UTF-8 bytes.  Ascii(s)
   is the String of a literal s of ASCII characters: tab, line feed, carriage
   return and the printable characters 32 to 95 and 97 to 126. *)
CharsFrom32 == " !\"#$%&'()*+,-./0123456789:;<=>?@ABCDEFGHIJKLMNOPQRSTUVWXYZ[\\]^_"
CharsFrom97 == "abcdefghijklmnopqrstuvwxyz{|}~"

AsciiCode(c) ==
    IF c = "\t" THEN 9
    ELSE IF c = "\n" THEN 10
    ELSE IF c = "\r" THEN 13
    ELSE IF \E i \in 1..Len(CharsFrom32) : SubSeq(CharsFrom32, i, i) = c
    THEN 31 + (CHOOSE i \in 1..Len(CharsFrom32) : SubSeq(CharsFrom32, i, i) = c)
    ELSE 96 + (CHOOSE i \in 1..Len(CharsFrom97) : SubSeq(CharsFrom97, i, i) = c)

RECURSIVE AsciiFrom(_, _)
AsciiFrom(s, i) ==
    IF i > Len(s) THEN <<>>
    ELSE <<AsciiCode(SubSeq(s, i, i))>> \o AsciiFrom(s, i + 1)

Ascii(s) == AsciiFrom(s, 1)

(* Ord for String compares the bytes: a < b for strings that agree before
   position i *)
RECURSIVE StringLessFrom(_, _, _)
StringLessFrom(a, b, i) ==
    IF i > Len(a) THEN i <= Len(b)
    ELSE IF i > Len(b) THEN FALSE
    ELSE IF a[i] # b[i] THEN a[i] < b[i]
    ELSE StringLessFrom(a, b, i + 1)

StringLess(a, b) == StringLessFrom(a, b, 1)

(* Map::insert: a sequence of entries kept sorted by key, a later insert of
   an existing key replaces the value. *)
RECURSIVE MapInsert(_, _, _)
MapInsert(m, key, val) ==
    IF m = <<>> THEN <<KV(key, val)>>
    ELSE IF Head(m).key = key THEN <<KV(key, val)>> \o Tail(m)
    ELSE IF StringLess(key, Head(m).key) THEN <<KV(key, val)>> \o m
    ELSE <<Head(m)>> \o MapInsert(Tail(m), key, val)

RECURSIVE MapFromEntries(_)
MapFromEntries(entries) ==
    IF entries = <<>> THEN <<>>
    ELSE LET n == Len(entries)
         IN MapInsert(MapFromEntries(SubSeq(entries, 1, n - 1)),
                      entries[n].key, entries[n].val)

----------------------------------------------------------------------------
(* serde_json::to_vec: serialisation to tokens *)

RECURSIVE SerValue(_), SerElems(_), SerMembers(_)

(* Serialize for serde_json::Value *)
SerValue(x) ==
    CASE x.t = "null" -> <<W("null")>>
      [] x.t = "bool" -> <<W(IF x.bool THEN "true" ELSE "false")>>
      [] x.t = "num" -> <<N(x.num)>>
      [] x.t = "str" -> <<S(x.str)>>
      [] x.t = "arr" -> <<P("[")>> \o SerElems(x.arr) \o <<P("]")>>
      [] x.t = "obj" -> <<P("{")>> \o SerMembers(x.obj) \o <<P("}")>>

SerElems(q) ==
    IF q = <<>> THEN <<>>
    ELSE SerValue(Head(q)) \o
         (IF Tail(q) = <<>> THEN <<>> ELSE <<P(",")>> \o SerElems(Tail(q)))

SerMembers(m) ==
    IF m = <<>> THEN <<>>
    ELSE <<S(Head(m).key), P(":")>> \o SerValue(Head(m).val) \o
         (IF Tail(m) = <<>> THEN <<>> ELSE <<P(",")>> \o SerMembers(Tail(m)))

SerString(s) == <<S(s)>>
SerU16(n) == <<N(n)>>
SerBool(b) == <<W(IF b THEN "true" ELSE "false")>>

(* Serialize for Option<T>: None is written as null, Some(x) as x *)
SerNone == <<W("null")>>
SerOptString(o) == IF o.some THEN SerString(o.v) ELSE SerNone
SerOptU16(o) == IF o.some THEN SerU16(o.v) ELSE SerNone
SerOptValue(o) == IF o.some THEN SerValue(o.v) ELSE SerNone

(* Serialize for Vec<String> *)
SerVecString(q) == SerValue(JArr([i \in 1..Len(q) |-> JStr(q[i])]))

(* Serialize for HashMap<String, String>: the entries in the iteration
   order of the map, which is the order of the sequence that models it. *)
SerHashMap(h) ==
    <<P("{")>> \o SerMembers([i \in 1..Len(h) |-> KV(h[i].key, JStr(h[i].val))])
    \o <<P("}")>>

(* A struct is written as an object of its fields in declaration order;
   fields is a sequence of [name, toks]. *)
RECURSIVE SerFields(_)
SerFields(fields) ==
    IF fields = <<>> THEN <<>>
    ELSE <<S(Head(fields).name), P(":")>> \o Head(fields).toks \o
         (IF Tail(fields) = <<>> THEN <<>> ELSE <<P(",")>> \o SerFields(Tail(fields)))

SerOptVecString(o) == IF o.some THEN SerVecString(o.v) ELSE SerNone
SerOptHashMap(o) == IF o.some THEN SerHashMap(o.v) ELSE SerNone

SerStruct(fields) == <<P("{")>> \o SerFields(fields) \o <<P("}")>>

Field(name, toks) == [name |-> name, toks |-> toks]

----------------------------------------------------------------------------
(* serde_json::from_slice: a value is decoded while the text is read, so the
   first error in the order of the text is the one returned.  Every decoder
   takes the tokens not yet read and yields Ok([val, rest]) or Err(kind). *)

Parsed(val, rest) == Ok([val |-> val, rest |-> rest])

IsP(tok, c) == tok.k = "p" /\ tok.p = c

(* Deserializer::peek_invalid_type: the token at the front starts a value of
   another type than the expected one, or starts no value at all *)
PeekInvalidType(toks, expected) ==
    IF toks = <<>> THEN Err("EOF while parsing a value")
    ELSE IF Head(toks).k \in {"w", "n", "s"} \/ IsP(Head(toks), "[")
            \/ IsP(Head(toks), "{")
    THEN Err("invalid type, expected " \o expected)
    ELSE Err("expected value")

(* SeqAccess::next_element_seed up to the element: Ok([more, rest]) with
   more = FALSE at the closing bracket, which is left unread *)
SeqNext(toks, first) ==
    IF toks = <<>> THEN Err("EOF while parsing a list")
    ELSE IF IsP(Head(toks), "]") THEN Ok([more |-> FALSE, rest |-> toks])
    ELSE IF IsP(Head(toks), ",") /\ ~first
    THEN IF Tail(toks) = <<>> THEN Err("EOF while parsing a value")
         ELSE IF IsP(Head(Tail(toks)), "]") THEN Err("trailing comma")
         ELSE Ok([more |-> TRUE, rest |-> Tail(toks)])
    ELSE IF first THEN Ok([more |-> TRUE, rest |-> toks])
    ELSE Err("expected comma or closing bracket")

(* Deserializer::end_seq *)
EndSeq(toks) ==
    IF toks = <<>> THEN Err("EOF while parsing a list")
    ELSE IF IsP(Head(toks), "]") THEN Ok(Tail(toks))
    ELSE IF IsP(Head(toks), ",")
    THEN IF Tail(toks) # <<>> /\ IsP(Head(Tail(toks)), "]")
         THEN Err("trailing comma")
         ELSE Err("trailing characters")
    ELSE Err("trailing characters")

(* The key after an optional comma *)
MapKey(toks) ==
    IF toks = <<>> THEN Err("EOF while parsing a value")
    ELSE IF Head(toks).k = "s"
    THEN Ok([more |-> TRUE, key |-> Head(toks).s, rest |-> Tail(toks)])
    ELSE IF IsP(Head(toks), "}") THEN Err("trailing comma")
    ELSE Err("key must be a string")

(* MapAccess::next_key_seed: Ok([more, key, rest]) with more = FALSE at the
   closing brace, which is left unread *)
MapNextKey(toks, first) ==
    IF toks = <<>> THEN Err("EOF while parsing an object")
    ELSE IF IsP(Head(toks), "}")
    THEN Ok([more |-> FALSE, key |-> "", rest |-> toks])
    ELSE IF IsP(Head(toks), ",") /\ ~first THEN MapKey(Tail(toks))
    ELSE IF first THEN MapKey(toks)
    ELSE Err("expected comma or closing brace")

(* Deserializer::parse_object_colon *)
Colon(toks) ==
    IF toks = <<>> THEN Err("EOF while parsing an object")
    ELSE IF IsP(Head(toks), ":") THEN Ok(Tail(toks))
    ELSE Err("expected colon")

(* Deserializer::end_map *)
EndMap(toks) ==
    IF toks = <<>> THEN Err("EOF while parsing an object")
    ELSE IF IsP(Head(toks), "}") THEN Ok(Tail(toks))
    ELSE IF IsP(Head(toks), ",") THEN Err("trailing comma")
    ELSE Err("trailing characters")

(* Deserializer::end, the last step of from_slice: nothing may follow *)
End(r) ==
    IF ~r.ok THEN r
    ELSE IF r.v.rest # <<>> THEN Err("trailing characters")
    ELSE Ok(r.v.val)

RECURSIVE DeValue(_), DeValueSeq(_, _, _), DeValueMap(_, _, _)

(* Deserialize for serde_json::Value; an object becomes a map, a repeated
   key keeps its last value *)
DeValue(toks) ==
    IF toks = <<>> THEN Err("EOF while parsing a value")
    ELSE LET h == Head(toks)
             r == Tail(toks)
         IN CASE h.k = "w" ->
                   Parsed(IF h.w = "null" THEN JNull ELSE JBool(h.w = "true"), r)
              [] h.k = "n" -> Parsed(JNum(h.n), r)
              [] h.k = "s" -> Parsed(JStr(h.s), r)
              [] IsP(h, "[") -> DeValueSeq(r, <<>>, TRUE)
              [] IsP(h, "{") -> DeValueMap(r, <<>>, TRUE)
              [] OTHER -> Err("expected value")

DeValueSeq(toks, acc, first) ==
    LET n == SeqNext(toks, first)
    IN IF ~n.ok THEN n
       ELSE IF ~n.v.more
       THEN LET e == EndSeq(n.v.rest)
            IN IF ~e.ok THEN e ELSE Parsed(JArr(acc), e.v)
       ELSE LET x == DeValue(n.v.rest)
            IN IF ~x.ok THEN x
               ELSE DeValueSeq(x.v.rest, Append(acc, x.v.val), FALSE)

DeValueMap(toks, acc, first) ==
    LET k == MapNextKey(toks, first)
    IN IF ~k.ok THEN k
       ELSE IF ~k.v.more
       THEN LET e == EndMap(k.v.rest)
            IN IF ~e.ok THEN e ELSE Parsed(JObj(acc), e.v)
       ELSE LET c == Colon(k.v.rest)
            IN IF ~c.ok THEN c
               ELSE LET x == DeValue(c.v)
                    IN IF ~x.ok THEN x
                       ELSE DeValueMap(x.v.rest,
                                       MapInsert(acc, k.v.key, x.v.val), FALSE)

RECURSIVE IgnoreValue(_), IgnoreSeq(_, _), IgnoreMap(_, _), IgnoreMember(_)

(* Deserializer::ignore_value, for a member that is no field of the struct:
   the value is read and dropped.  Yields Ok(rest). *)
IgnoreValue(toks) ==
    IF toks = <<>> THEN Err("EOF while parsing a value")
    ELSE IF Head(toks).k \in {"w", "n", "s"} THEN Ok(Tail(toks))
    ELSE IF IsP(Head(toks), "[") THEN IgnoreSeq(Tail(toks), FALSE)
    ELSE IF IsP(Head(toks), "{") THEN IgnoreMap(Tail(toks), FALSE)
    ELSE Err("expected value")

IgnoreSeq(toks, accept_comma) ==
    IF toks = <<>> THEN Err("EOF while parsing a list")
    ELSE IF IsP(Head(toks), "]") THEN Ok(Tail(toks))
    ELSE IF accept_comma /\ ~IsP(Head(toks), ",")
    THEN Err("expected comma or closing bracket")
    ELSE LET x == IgnoreValue(IF accept_comma THEN Tail(toks) ELSE toks)
         IN IF ~x.ok THEN x ELSE IgnoreSeq(x.v, TRUE)

IgnoreMap(toks, accept_comma) ==
    IF toks = <<>> THEN Err("EOF while parsing an object")
    ELSE IF IsP(Head(toks), "}") THEN Ok(Tail(toks))
    ELSE IF accept_comma /\ ~IsP(Head(toks), ",")
    THEN Err("expected comma or closing brace")
    ELSE IgnoreMember(IF accept_comma THEN Tail(toks) ELSE toks)

IgnoreMember(toks) ==
    IF toks = <<>> THEN Err("EOF while parsing an object")
    ELSE IF Head(toks).k # "s" THEN Err("key must be a string")
    ELSE LET c == Colon(Tail(toks))
         IN IF ~c.ok THEN c
            ELSE LET x == IgnoreValue(c.v)
                 IN IF ~x.ok THEN x ELSE IgnoreMap(x.v, TRUE)

(* Deserialize for String *)
DeString(toks) ==
    IF toks # <<>> /\ Head(toks).k = "s" THEN Parsed(Head(toks).s, Tail(toks))
    ELSE PeekInvalidType(toks, "a string")

(* Deserialize for bool *)
DeBool(toks) ==
    IF toks # <<>> /\ Head(toks).k = "w" /\ Head(toks).w # "null"
    THEN Parsed(Head(toks).w = "true", Tail(toks))
    ELSE PeekInvalidType(toks, "a boolean")

(* Deserialize for u16 *)
DeU16(toks) ==
    IF toks # <<>> /\ Head(toks).k = "n"
    THEN IF 0 <= Head(toks).n /\ Head(toks).n <= U16Max
         THEN Parsed(Head(toks).n, Tail(toks))
         ELSE Err("invalid value, expected u16")
    ELSE PeekInvalidType(toks, "u16")

(* Deserialize for Vec<String> *)
RECURSIVE DeVecStringSeq(_, _, _)
DeVecStringSeq(toks, acc, first) ==
    LET n == SeqNext(toks, first)
    IN IF ~n.ok THEN n
       ELSE IF ~n.v.more
       THEN LET e == EndSeq(n.v.rest)
            IN IF ~e.ok THEN e ELSE Parsed(acc, e.v)
       ELSE LET x == DeString(n.v.rest)
            IN IF ~x.ok THEN x
               ELSE DeVecStringSeq(x.v.rest, Append(acc, x.v.val), FALSE)

DeVecString(toks) ==
    IF toks # <<>> /\ IsP(Head(toks), "[")
    THEN DeVecStringSeq(Tail(toks), <<>>, TRUE)
    ELSE PeekInvalidType(toks, "a sequence")

(* Deserialize for HashMap<String, String>; the result is the map as its
   entries sorted by key, a repeated key keeps its last value *)
RECURSIVE DeHashMapMap(_, _, _)
DeHashMapMap(toks, acc, first) ==
    LET k == MapNextKey(toks, first)
    IN IF ~k.ok THEN k
       ELSE IF ~k.v.more
       THEN LET e == EndMap(k.v.rest)
            IN IF ~e.ok THEN e ELSE Parsed(acc, e.v)
       ELSE LET c == Colon(k.v.rest)
            IN IF ~c.ok THEN c
               ELSE LET x == DeString(c.v)
                    IN IF ~x.ok THEN x
                       ELSE DeHashMapMap(x.v.rest,
                                         MapInsert(acc, k.v.key, x.v.val), FALSE)

DeHashMap(toks) ==
    IF toks # <<>> /\ IsP(Head(toks), "{")
    THEN DeHashMapMap(Tail(toks), <<>>, TRUE)
    ELSE PeekInvalidType(toks, "a map")

(* Deserialize for Option<T>: null is None, anything else is read as T *)
IsNull(toks) == toks # <<>> /\ Head(toks).k = "w" /\ Head(toks).w = "null"

WrapSome(r) == IF r.ok THEN Parsed(Some(r.v.val), r.v.rest) ELSE r

DeOptString(toks) ==
    IF IsNull(toks) THEN Parsed(None, Tail(toks)) ELSE WrapSome(DeString(toks))
DeOptU16(toks) ==
    IF IsNull(toks) THEN Parsed(None, Tail(toks)) ELSE WrapSome(DeU16(toks))
DeOptValue(toks) ==
    IF IsNull(toks) THEN Parsed(None, Tail(toks)) ELSE WrapSome(DeValue(toks))
DeOptVecString(toks) ==
    IF IsNull(toks) THEN Parsed(None, Tail(toks)) ELSE WrapSome(DeVecString(toks))
DeOptHashMap(toks) ==
    IF IsNull(toks) THEN Parsed(None, Tail(toks)) ELSE WrapSome(DeHashMap(toks))

(* The field types of the structs *)
DeField(ty, toks) ==
    CASE ty = "bool" -> DeBool(toks)
      [] ty = "Option<String>" -> DeOptString(toks)
      [] ty = "Option<u16>" -> DeOptU16(toks)
      [] ty = "Option<serde_json::Value>" -> DeOptValue(toks)
      [] ty = "Option<HashMap<String, String>>" -> DeOptHashMap(toks)
      [] ty = "Option<Vec<String>>" -> DeOptVecString(toks)

FieldDecl(name, ty) == [name |-> name, ty |-> ty]

IsOption(ty) == ty # "bool"

RECURSIVE StructSeq(_, _, _), StructSeqPush(_, _, _)

(* The derived visit_seq: the fields by position, each one required *)
StructSeq(fields, toks, acc) ==
    IF Len(acc) = Len(fields)
    THEN LET e == EndSeq(toks)
         IN IF ~e.ok THEN e ELSE Parsed(acc, e.v)
    ELSE LET n == SeqNext(toks, acc = <<>>)
         IN IF ~n.ok THEN n
            ELSE IF ~n.v.more THEN Err("invalid length")
            ELSE StructSeqPush(fields, DeField(fields[Len(acc) + 1].ty, n.v.rest),
                               acc)

(* visit_seq after an element: x is what its decoder returned *)
StructSeqPush(fields, x, acc) ==
    IF ~x.ok THEN x ELSE StructSeq(fields, x.v.rest, Append(acc, x.v.val))

(* The derived visit_map: seen[i] is Some(value) once field i was read.  A
   field read twice is an error, a member of another name is ignored, a
   missing Option field is None and a missing field of another type is an
   error. *)
RECURSIVE StructMap(_, _, _, _), StructMapPut(_, _, _, _), StructMapSkip(_, _, _)
StructMap(fields, toks, seen, first) ==
    LET k == MapNextKey(toks, first)
    IN IF ~k.ok THEN k
       ELSE IF ~k.v.more
       THEN IF \E i \in 1..Len(fields) : ~seen[i].some /\ ~IsOption(fields[i].ty)
            THEN Err("missing field")
            ELSE LET e == EndMap(k.v.rest)
                 IN IF ~e.ok THEN e
                    ELSE Parsed([i \in 1..Len(fields) |->
                                   IF seen[i].some THEN seen[i].v ELSE None],
                                e.v)
       ELSE IF \E i \in 1..Len(fields) : fields[i].name = k.v.key
       THEN LET i == CHOOSE j \in 1..Len(fields) : fields[j].name = k.v.key
            IN IF seen[i].some THEN Err("duplicate field")
               ELSE LET c == Colon(k.v.rest)
                    IN IF ~c.ok THEN c
                       ELSE StructMapPut(fields, DeField(fields[i].ty, c.v), seen, i)
       ELSE LET c == Colon(k.v.rest)
            IN IF ~c.ok THEN c
               ELSE StructMapSkip(fields, IgnoreValue(c.v), seen)

(* visit_map after the value of field i: x is what its decoder returned *)
StructMapPut(fields, x, seen, i) ==
    IF ~x.ok THEN x
    ELSE StructMap(fields, x.v.rest, [seen EXCEPT ![i] = Some(x.v.val)], FALSE)

(* visit_map after the ignored value of a member that is no field *)
StructMapSkip(fields, x, seen) ==
    IF ~x.ok THEN x ELSE StructMap(fields, x.v, seen, FALSE)

(* Deserializer::deserialize_struct: from an array or from an object; val is
   the sequence of the field values in the order of fields *)
DeStruct(fields, toks) ==
    IF toks # <<>> /\ IsP(Head(toks), "[")
    THEN StructSeq(fields, Tail(toks), <<>>)
    ELSE IF toks # <<>> /\ IsP(Head(toks), "{")
    THEN StructMap(fields, Tail(toks), [i \in 1..Len(fields) |-> None], TRUE)
    ELSE PeekInvalidType(toks, "a struct")

----------------------------------------------------------------------------
(* response::ValidationResponse *)

ValidationResponse(accepted, message, code, mutated_object, audit_annotations, warnings) ==
    [accepted |-> accepted, message |-> message, code |-> code,
     mutated_object |-> mutated_object,
     audit_annotations |-> audit_annotations, warnings |-> warnings]

ValidationResponseFields ==
    <<FieldDecl(Ascii("accepted"), "bool"),
      FieldDecl(Ascii("message"), "Option<String>"),
      FieldDecl(Ascii("code"), "Option<u16>"),
      FieldDecl(Ascii("mutated_object"), "Option<serde_json::Value>"),
      FieldDecl(Ascii("audit_annotations"), "Option<HashMap<String, String>>"),
      FieldDecl(Ascii("warnings"), "Option<Vec<String>>")>>

(* serde_json::to_vec(&ValidationResponse): never fails for these field types *)
SerValidationResponse(r) ==
    Ok(SerStruct(<<
        Field(ValidationResponseFields[1].name, SerBool(r.accepted)),
        Field(ValidationResponseFields[2].name, SerOptString(r.message)),
        Field(ValidationResponseFields[3].name, SerOptU16(r.code)),
        Field(ValidationResponseFields[4].name, SerOptValue(r.mutated_object)),
        Field(ValidationResponseFields[5].name, SerOptHashMap(r.audit_annotations)),
        Field(ValidationResponseFields[6].name, SerOptVecString(r.warnings))>>))

(* The derived visitor builds the struct from the values of its fields *)
ValidationResponseFrom(r) ==
    IF ~r.ok THEN r
    ELSE Ok(ValidationResponse(r.v[1], r.v[2], r.v[3], r.v[4], r.v[5], r.v[6]))

(* serde_json::from_slice::<ValidationResponse> *)
DeValidationResponse(bytes) ==
    ValidationResponseFrom(End(DeStruct(ValidationResponseFields, bytes)))

----------------------------------------------------------------------------
(* settings::SettingsValidationResponse *)

SettingsValidationResponse(valid, message) ==
    [valid |-> valid, message |-> message]

SettingsValidationResponseFields ==
    <<FieldDecl(Ascii("valid"), "bool"), FieldDecl(Ascii("message"), "Option<String>")>>

SerSettingsValidationResponse(r) ==
    Ok(SerStruct(<<
        Field(SettingsValidationResponseFields[1].name, SerBool(r.valid)),
        Field(SettingsValidationResponseFields[2].name, SerOptString(r.message))>>))

SettingsValidationResponseFrom(r) ==
    IF ~r.ok THEN r ELSE Ok(SettingsValidationResponse(r.v[1], r.v[2]))

DeSettingsValidationResponse(bytes) ==
    SettingsValidationResponseFrom(
        End(DeStruct(SettingsValidationResponseFields, bytes)))

----------------------------------------------------------------------------
(* metadata::ProtocolVersion *)

ProtocolVersions == {"V1", "V2"}

ProtocolVersionDefault == "V2"

(* The names the variants are written with *)
ProtocolVersionNames == [V1 |-> Ascii("v1"), V2 |-> Ascii("v2")]

ProtocolVersionName(pv) == ProtocolVersionNames[pv]

(* A unit variant is written as its name *)
SerProtocolVersion(pv) == Ok(<<S(ProtocolVersionName(pv))>>)

(* The variant identifier: a string that names a variant *)
DeVariant(toks) ==
    IF toks # <<>> /\ Head(toks).k = "s"
    THEN IF \E pv \in ProtocolVersions : ProtocolVersionName(pv) = Head(toks).s
         THEN Parsed(CHOOSE pv \in ProtocolVersions :
                         ProtocolVersionName(pv) = Head(toks).s,
                     Tail(toks))
         ELSE Err("unknown variant")
    ELSE PeekInvalidType(toks, "variant identifier")

(* Deserialize for (): the content of a unit variant written as a map *)
DeUnit(toks) ==
    IF IsNull(toks) THEN Ok(Tail(toks)) ELSE PeekInvalidType(toks, "unit")

(* Deserializer::deserialize_enum after the content of the variant: the map
   is closed *)
EndVariant(pv, u) ==
    IF ~u.ok THEN u
    ELSE IF u.v = <<>> THEN Err("EOF while parsing an object")
    ELSE IF IsP(Head(u.v), "}") THEN Parsed(pv, Tail(u.v))
    ELSE Err("expected value")

(* The variant written as a map: after the identifier, a colon and the unit *)
DeVariantContent(x) ==
    IF ~x.ok THEN x
    ELSE LET c == Colon(x.v.rest)
         IN IF ~c.ok THEN c ELSE EndVariant(x.v.val, DeUnit(c.v))

(* Deserializer::deserialize_enum: a string names a unit variant, a map
   holds the name and the content of one variant *)
DeEnum(toks) ==
    IF toks = <<>> THEN Err("EOF while parsing a value")
    ELSE IF Head(toks).k = "s" THEN DeVariant(toks)
    ELSE IF IsP(Head(toks), "{") THEN DeVariantContent(DeVariant(Tail(toks)))
    ELSE Err("expected value")

(* serde_json::from_slice::<ProtocolVersion> *)
DeProtocolVersion(bytes) == End(DeEnum(bytes))

----------------------------------------------------------------------------
(* The configuration type of the documentation of validate_settings *)

Settings(setting_a, setting_b) ==
    [setting_a |-> setting_a, setting_b |-> setting_b]

SettingsFields ==
    <<FieldDecl(Ascii("setting_a"), "Option<String>"),
      FieldDecl(Ascii("setting_b"), "Option<String>")>>

(* The derived visitor builds the struct from the values of its fields *)
SettingsFrom(r) == IF ~r.ok THEN r ELSE Ok(Settings(r.v[1], r.v[2]))

(* serde_json::from_slice::<Settings> *)
DeSettings(bytes) == SettingsFrom(End(DeStruct(SettingsFields, bytes)))

(* The messages of validate *)
NeitherSettingMessage == Ascii("either setting A or setting B has to be provided")
BothSettingsMessage == Ascii("setting A and setting B cannot be set at the same time")

(* Mutant of validate: forgets that the two settings exclude each other *)
validate_accepts_both(self) ==
    IF ~self.setting_a.some /\ ~self.setting_b.some
    THEN Err(NeitherSettingMessage)
    ELSE Ok("()")

(* impl Validatable for Settings *)
validate(self) ==
    IF ~self.setting_a.some /\ ~self.setting_b.some
    THEN Err(NeitherSettingMessage)
    ELSE IF self.setting_a.some /\ self.setting_b.some
    THEN Err(BothSettingsMessage)
    ELSE Ok("()")

----------------------------------------------------------------------------
(* src/lib.rs *)

(* The ? operator on the result of serde_json::to_vec *)
Try(r) == IF r.ok THEN Ok(r.v) ELSE Err(r.err)

(* Mutant of accept_request: an acceptance that carries a message *)
accept_request_with_message ==
    Try(SerValidationResponse(
            ValidationResponse(TRUE, Some(Ascii("accepted")), None, None, None, None)))

accept_request ==
    Try(SerValidationResponse(
            ValidationResponse(TRUE, None, None, None, None, None)))

(* Mutant of mutate_request: the mutated object is left out *)
mutate_request_drops_object(mutated_object) ==
    Try(SerValidationResponse(
            ValidationResponse(TRUE, None, None, None, None, None)))

mutate_request(mutated_object) ==
    Try(SerValidationResponse(
            ValidationResponse(TRUE, None, None, Some(mutated_object), None, None)))

(* Mutant of reject_request: the warnings are left out *)
reject_request_drops_warnings(message, code, audit_annotations, warnings) ==
    Try(SerValidationResponse(
            ValidationResponse(FALSE, message, code, None,
                               audit_annotations, None)))

(* Mutant of reject_request: a rejection without a message is reported as
   an acceptance *)
reject_request_accepts(message, code, audit_annotations, warnings) ==
    Try(SerValidationResponse(
            ValidationResponse(~message.some, message, code, None,
                               audit_annotations, warnings)))

reject_request(message, code, audit_annotations, warnings) ==
    Try(SerValidationResponse(
            ValidationResponse(FALSE, message, code, None,
                               audit_annotations, warnings)))

(* String::from_utf8_lossy: a byte that is not valid UTF-8 becomes U+FFFD *)
from_utf8_lossy(payload) ==
    [i \in 1..Len(payload) |->
        IF payload[i].k = "x" THEN ReplacementChar ELSE payload[i]]

(* anyhow!("Error decoding validation payload {}: {:?}", text, e) *)
DecodeError(text, e) ==
    [format |-> "Error decoding validation payload {}: {:?}",
     payload |-> text, cause |-> e]

(* Mutant of validate_settings: a failed validation is returned as an
   error of the call *)
validate_settings_propagates_invalid(payload) ==
    LET settings == DeSettings(payload)
    IN IF ~settings.ok
       THEN Err(DecodeError(from_utf8_lossy(payload), settings.err))
       ELSE LET r == validate(settings.v)
            IN IF r.ok
               THEN Try(SerSettingsValidationResponse(
                            SettingsValidationResponse(TRUE, None)))
               ELSE Err(r.err)

(* Mutant of validate_settings: the message of a failed validation is lost *)
validate_settings_drops_message(payload) ==
    LET settings == DeSettings(payload)
    IN IF ~settings.ok
       THEN Err(DecodeError(from_utf8_lossy(payload), settings.err))
       ELSE LET r == validate(settings.v)
                res == IF r.ok
                       THEN SettingsValidationResponse(TRUE, None)
                       ELSE SettingsValidationResponse(FALSE, None)
            IN Try(SerSettingsValidationResponse(res))

(* Mutant of validate_settings: a payload that does not decode is replaced
   by the default settings *)
validate_settings_defaults(payload) ==
    LET decoded == DeSettings(payload)
        settings == IF decoded.ok THEN decoded.v ELSE Settings(None, None)
        r == validate(settings)
        res == IF r.ok
               THEN SettingsValidationResponse(TRUE, None)
               ELSE SettingsValidationResponse(FALSE, Some(r.err))
    IN Try(SerSettingsValidationResponse(res))

(* Mutant of validate_settings: a memoized configuration, the call works on
   the payload the previous call of validate_settings received *)
validate_settings_memoized(payload) ==
    LET earlier == {i \in 1..Len(calls) : calls[i].op = "validate_settings"}
        latest == CHOOSE i \in earlier : \A j \in earlier : j <= i
        settings == DeSettings(IF earlier = {} THEN payload
                               ELSE calls[latest].args.payload)
    IN IF ~settings.ok
       THEN Err(DecodeError(from_utf8_lossy(payload), settings.err))
       ELSE LET r == validate(settings.v)
                res == IF r.ok
                       THEN SettingsValidationResponse(TRUE, None)
                       ELSE SettingsValidationResponse(FALSE, Some(r.err))
            IN Try(SerSettingsValidationResponse(res))

validate_settings(payload) ==
    LET settings == DeSettings(payload)
    IN IF ~settings.ok
       THEN Err(DecodeError(from_utf8_lossy(payload), settings.err))
       ELSE LET r == validate(settings.v)
                res == IF r.ok
                       THEN SettingsValidationResponse(TRUE, None)
                       ELSE SettingsValidationResponse(FALSE, Some(r.err))
            IN Try(SerSettingsValidationResponse(res))

(* Mutant of protocol_version_guest: the answer depends on the payload *)
protocol_version_guest_reads_payload(payload) ==
    Try(SerProtocolVersion(IF payload = <<>> THEN ProtocolVersionDefault ELSE "V1"))

protocol_version_guest(payload) ==
    Try(SerProtocolVersion(ProtocolVersionDefault))

----------------------------------------------------------------------------
(* Inputs *)

SeqsUpTo(set, n) == UNION {[1..k -> set] : k \in 0..n}

ScalarDocs ==
    {JNull, JBool(TRUE), JBool(FALSE), JNum(7), JStr(Ascii("Pod"))}

(* Documents nested to depth d; objects are maps, their entries sorted by key *)
RECURSIVE Docs(_)
Docs(d) ==
    IF d = 0 THEN ScalarDocs
    ELSE LET sub == Docs(d - 1)
         IN sub \cup {JArr(<<>>), JObj(<<>>)}
                \cup {JArr(<<x>>) : x \in sub}
                \cup {JArr(<<x, y>>) : x \in ScalarDocs, y \in ScalarDocs}
                \cup {JObj(<<KV(key, x)>>) : key \in {Ascii("a"), Ascii("b")}, x \in sub}
                \cup {JObj(<<KV(Ascii("a"), x), KV(Ascii("b"), y)>>) :
                         x \in ScalarDocs, y \in ScalarDocs}

(* json!({...}) of tests::test_mutate_request *)
PodDocument ==
    JObj(MapFromEntries(<<
        KV(Ascii("apiVersion"), JStr(Ascii("v1"))),
        KV(Ascii("kind"), JStr(Ascii("Pod"))),
        KV(Ascii("metadata"), JObj(MapFromEntries(<<
            KV(Ascii("name"), JStr(Ascii("security-context-demo-4")))>>))),
        KV(Ascii("spec"), JObj(MapFromEntries(<<
            KV(Ascii("containers"), JArr(<<JObj(MapFromEntries(<<
                KV(Ascii("name"), JStr(Ascii("sec-ctx-4"))),
                KV(Ascii("image"), JStr(Ascii("gcr.io/google-samples/node-hello:1.0"))),
                KV(Ascii("securityContext"), JObj(MapFromEntries(<<
                    KV(Ascii("capabilities"), JObj(MapFromEntries(<<
                        KV(Ascii("add"), JArr(<<JStr(Ascii("NET_ADMIN")), JStr(Ascii("SYS_TIME"))>>)),
                        KV(Ascii("drop"), JArr(<<JStr(Ascii("BPF"))>>))>>)))>>)))>>))>>))>>)))>>))

(* The documents given to mutate_request *)
Documents == Docs(MaxDocDepth) \cup {PodDocument}

Messages == {None, Some(Ascii("")), Some(Ascii("internal error"))}

Codes == {None, Some(500), Some(U16Max)}

AnnotationEntries ==
    {KV(key, Ascii("image-blacklisted")) :
        key \in {Ascii("imagepolicy.example.com/error"), Ascii("k1")}}

(* A HashMap<String, String> is modelled by its entries in iteration order *)
HashMaps ==
    {h \in SeqsUpTo(AnnotationEntries, MaxAnnotations) :
        \A i, j \in 1..Len(h) : i # j => h[i].key # h[j].key}

Annotations == {None} \cup {Some(h) : h \in HashMaps}

Warnings ==
    {None} \cup {Some(w) : w \in SeqsUpTo({Ascii("warning 1"), Ascii("warning 2")}, MaxWarnings)}

(* Values a member of a settings payload may have *)
SettingValues == {JStr(Ascii("x")), JNum(5)}

SettingMembers(name) == {<<>>} \cup {<<KV(name, x)>> : x \in SettingValues}

(* JSON texts sent as settings: objects with setting_a and setting_b in
   either order and an optional unknown member, a repeated member, arrays
   and scalars *)
SettingsTexts ==
    {JObj(a \o b \o o) : a \in SettingMembers(Ascii("setting_a")),
                         b \in SettingMembers(Ascii("setting_b")),
                         o \in {<<>>, <<KV(Ascii("other"), JNum(5))>>}}
    \cup {JObj(b \o a) : a \in SettingMembers(Ascii("setting_a")),
                         b \in SettingMembers(Ascii("setting_b"))}
    \cup {JObj(<<KV(Ascii("setting_a"), JStr(Ascii("x"))), KV(Ascii("setting_a"), JStr(Ascii("y")))>>),
          JObj(<<KV(Ascii("setting_a"), JNull)>>),
          JObj(<<KV(Ascii("setting_a"), JNull), KV(Ascii("setting_b"), JStr(Ascii("x")))>>),
          JArr(<<>>), JArr(<<JStr(Ascii("x"))>>), JArr(<<JStr(Ascii("x")), JNull>>),
          JArr(<<JStr(Ascii("x")), JStr(Ascii("y"))>>), JArr(<<JNull, JNull, JNull>>),
          JNull, JStr(Ascii("x")), JNum(7)}

Prefixes(toks) == {SubSeq(toks, 1, n) : n \in 0..Len(toks)}

Junk == {q \in SeqsUpTo({InvalidByte, P("}")}, MaxJunk) : q # <<>>}

(* The payloads: well-formed texts, their truncations, and texts followed by
   stray bytes *)
Payloads ==
    LET texts == {SerValue(x) : x \in SettingsTexts}
    IN (UNION {Prefixes(t) : t \in texts})
       \cup {t \o j : t \in texts, j \in Junk}

----------------------------------------------------------------------------
(* The state: the last invocation, its arguments and what it returned;
   calls is the sequence of the invocations made so far, kept by the actions
   of SpecCalls *)

Init ==
    /\ op = "none"
    /\ args = <<>>
    /\ result = Ok(<<>>)
    /\ calls = <<>>

AcceptRequest ==
    /\ op' = "accept_request"
    /\ args' = <<>>
    /\ result' = accept_request
    /\ UNCHANGED calls

MutateRequest ==
    \E mutated_object \in Documents :
        /\ op' = "mutate_request"
        /\ args' = [mutated_object |-> mutated_object]
        /\ result' = mutate_request(mutated_object)
        /\ UNCHANGED calls

RejectRequest ==
    \E message \in Messages, code \in Codes,
       audit_annotations \in Annotations, warnings \in Warnings :
        /\ op' = "reject_request"
        /\ args' = [message |-> message, code |-> code,
                    audit_annotations |-> audit_annotations,
                    warnings |-> warnings]
        /\ result' = reject_request(message, code, audit_annotations, warnings)
        /\ UNCHANGED calls

ValidateSettings ==
    \E payload \in Payloads :
        /\ op' = "validate_settings"
        /\ args' = [payload |-> payload]
        /\ result' = validate_settings(payload)
        /\ UNCHANGED calls

ProtocolVersionGuest ==
    \E payload \in Payloads :
        /\ op' = "protocol_version_guest"
        /\ args' = [payload |-> payload]
        /\ result' = protocol_version_guest(payload)
        /\ UNCHANGED calls

Next ==
    \/ AcceptRequest
    \/ MutateRequest
    \/ RejectRequest
    \/ ValidateSettings
    \/ ProtocolVersionGuest

Spec == Init /\ [][Next]_vars

----------------------------------------------------------------------------
(* Sequences of up to MaxCalls invocations, each one recorded in calls *)

Call(o, a, r) == [op |-> o, args |-> a, result |-> r]

CallDocuments == {JNull, JObj(<<>>)}

CallMessages == {None, Some(Ascii("internal error"))}

(* One map of two entries in both of its iteration orders, and no map *)
CallAnnotations == {None} \cup {Some(h) : h \in {g \in HashMaps : Len(g) = 2}}

(* A payload that validates, one that does not, one that does not decode and
   one that is not UTF-8 *)
CallPayloads ==
    {SerValue(JObj(<<KV(Ascii("setting_a"), JStr(Ascii("x")))>>)),
     SerValue(JObj(<<>>)),
     <<P("{")>>,
     <<InvalidByte>>}

CallAcceptRequest ==
    /\ Len(calls) < MaxCalls
    /\ op' = "accept_request"
    /\ args' = <<>>
    /\ result' = accept_request
    /\ calls' = Append(calls, Call(op', args', result'))

CallMutateRequest ==
    /\ Len(calls) < MaxCalls
    /\ \E mutated_object \in CallDocuments :
        /\ op' = "mutate_request"
        /\ args' = [mutated_object |-> mutated_object]
        /\ result' = mutate_request(mutated_object)
    /\ calls' = Append(calls, Call(op', args', result'))

CallRejectRequest ==
    /\ Len(calls) < MaxCalls
    /\ \E message \in CallMessages, audit_annotations \in CallAnnotations :
        /\ op' = "reject_request"
        /\ args' = [message |-> message, code |-> Some(500),
                    audit_annotations |-> audit_annotations,
                    warnings |-> None]
        /\ result' = reject_request(message, Some(500), audit_annotations, None)
    /\ calls' = Append(calls, Call(op', args', result'))

CallValidateSettings ==
    /\ Len(calls) < MaxCalls
    /\ \E payload \in CallPayloads :
        /\ op' = "validate_settings"
        /\ args' = [payload |-> payload]
        /\ result' = validate_settings(payload)
    /\ calls' = Append(calls, Call(op', args', result'))

CallProtocolVersionGuest ==
    /\ Len(calls) < MaxCalls
    /\ \E payload \in {<<>>, <<P("{")>>} :
        /\ op' = "protocol_version_guest"
        /\ args' = [payload |-> payload]
        /\ result' = protocol_version_guest(payload)
    /\ calls' = Append(calls, Call(op', args', result'))

NextCalls ==
    \/ CallAcceptRequest
    \/ CallMutateRequest
    \/ CallRejectRequest
    \/ CallValidateSettings
    \/ CallProtocolVersionGuest

SpecCalls == Init /\ [][NextCalls]_vars

----------------------------------------------------------------------------
(* Properties *)

(* The map a HashMap argument denotes, whatever its iteration order *)
MapOf(o) == IF o.some THEN Some(MapFromEntries(o.v)) ELSE None

(* C1: validate_settings fails at invocation level exactly when the payload
   does not decode into the configuration type; when the payload decodes and
   validate() fails, the call succeeds and its output decodes to a
   SettingsValidationResponse with valid = false. *)
C1_DecodeFailureVsValidationFailure ==
    op = "validate_settings" =>
        LET settings == DeSettings(args.payload)
        IN /\ result.ok <=> settings.ok
           /\ (settings.ok /\ ~validate(settings.v).ok) =>
                  /\ result.ok
                  /\ DeSettingsValidationResponse(result.v).ok
                  /\ DeSettingsValidationResponse(result.v).v.valid = FALSE

C1_Witness ==
    /\ op = "validate_settings"
    /\ DeSettings(args.payload).ok
    /\ ~validate(DeSettings(args.payload).v).ok
    /\ result.ok

(* C2: for every combination of present and absent message, code,
   audit_annotations and warnings, reject_request succeeds and its output
   decodes to accepted = false, mutated_object absent and the four fields
   exactly as supplied. *)
C2_RejectRoundTrip ==
    op = "reject_request" =>
        /\ result.ok
        /\ DeValidationResponse(result.v) =
               Ok(ValidationResponse(FALSE, args.message, args.code, None,
                                     MapOf(args.audit_annotations),
                                     args.warnings))

C2_Witness ==
    /\ op = "reject_request"
    /\ args.message = Some(Ascii("internal error"))
    /\ args.code = Some(500)
    /\ args.audit_annotations =
           Some(<<KV(Ascii("imagepolicy.example.com/error"),
                     Ascii("image-blacklisted"))>>)
    /\ args.warnings = Some(<<Ascii("warning 1"), Ascii("warning 2")>>)
    /\ result.ok
    /\ DeValidationResponse(result.v).ok
    /\ DeValidationResponse(result.v).v.code = Some(500)

(* C3 as stated: for every document D the output of mutate_request(D)
   decodes to accepted = true, mutated_object present and equal to D, and
   the other optional fields absent. *)
C3_MutateRoundTripAllDocuments ==
    op = "mutate_request" =>
        /\ result.ok
        /\ DeValidationResponse(result.v) =
               Ok(ValidationResponse(TRUE, None, None,
                                     Some(args.mutated_object), None, None))

(* C3 amended: for every document D other than JSON null the output of
   mutate_request(D) decodes to accepted = true, mutated_object present and
   equal to D, and the other optional fields absent; for D = null the output
   decodes to accepted = true with mutated_object absent. *)
C3_MutateRoundTripNonNull ==
    op = "mutate_request" =>
        /\ result.ok
        /\ DeValidationResponse(result.v) =
               Ok(ValidationResponse(TRUE, None, None,
                                     IF args.mutated_object.t = "null"
                                     THEN None
                                     ELSE Some(args.mutated_object),
                                     None, None))

C3_Witness ==
    /\ op = "mutate_request"
    /\ args.mutated_object.t = "obj"
    /\ Len(args.mutated_object.obj) = 2
    /\ result.ok
    /\ DeValidationResponse(result.v).ok
    /\ DeValidationResponse(result.v).v.mutated_object.some

(* C4: accept_request succeeds and its output decodes to accepted = true
   with message, code, mutated_object, audit_annotations and warnings all
   absent. *)
C4_AcceptAllAbsent ==
    op = "accept_request" =>
        /\ result.ok
        /\ DeValidationResponse(result.v) =
               Ok(ValidationResponse(TRUE, None, None, None, None, None))

C4_Witness ==
    /\ op = "accept_request"
    /\ result.ok
    /\ DeValidationResponse(result.v).ok
    /\ DeValidationResponse(result.v).v.accepted

(* C5: for every payload that decodes, the output of validate_settings
   decodes to {valid: true, message: None} when validate() succeeds and to
   {valid: false, message: Some(text)} with text the message of validate()
   when it fails; message is present if and only if valid is false. *)
C5_ValidationOutcomeMapping ==
    (op = "validate_settings" /\ DeSettings(args.payload).ok) =>
        LET r == validate(DeSettings(args.payload).v)
            out == DeSettingsValidationResponse(result.v)
        IN /\ result.ok
           /\ out = Ok(IF r.ok
                       THEN SettingsValidationResponse(TRUE, None)
                       ELSE SettingsValidationResponse(FALSE, Some(r.err)))
           /\ out.v.message.some <=> ~out.v.valid

C5_Witness ==
    /\ op = "validate_settings"
    /\ DeSettings(args.payload).ok
    /\ result.ok
    /\ DeSettingsValidationResponse(result.v).ok
    /\ DeSettingsValidationResponse(result.v).v.message =
           Some(BothSettingsMessage)

(* C6: when the payload does not decode, validate_settings fails with a
   diagnostic that holds the payload rendered as text (bytes that are not
   UTF-8 shown as U+FFFD, every other byte as it is) and the decode error;
   no response is produced from a defaulted configuration. *)
C6_DecodeFailureDiagnostic ==
    (op = "validate_settings" /\ ~DeSettings(args.payload).ok) =>
        /\ ~result.ok
        /\ Len(result.err.payload) = Len(args.payload)
        /\ \A i \in 1..Len(args.payload) :
              result.err.payload[i] = IF args.payload[i].k = "x"
                                    THEN ReplacementChar
                                    ELSE args.payload[i]
        /\ result.err.cause = DeSettings(args.payload).err

C6_Witness ==
    /\ op = "validate_settings"
    /\ ~DeSettings(args.payload).ok
    /\ \E i \in 1..Len(args.payload) : args.payload[i].k = "x"
    /\ ~result.ok
    /\ Len(result.err.payload) > 1

(* C7: in every call, whatever the payload, protocol_version_guest succeeds
   and its output decodes to the default protocol version V2. *)
C7_ProtocolVersionFixed ==
    op = "protocol_version_guest" =>
        /\ result.ok
        /\ DeProtocolVersion(result.v) = Ok("V2")

C7_Witness ==
    /\ op = "protocol_version_guest"
    /\ args.payload # <<>>
    /\ result.ok
    /\ DeProtocolVersion(result.v).ok

(* C8: the response of each of the three builders satisfies the data-model
   invariant: accepted = true implies message and code absent, accepted =
   false implies mutated_object absent, and mutated_object is present only
   in the output of mutate_request. *)
C8_ResponseInvariant ==
    op \in {"accept_request", "mutate_request", "reject_request"} =>
        /\ result.ok
        /\ DeValidationResponse(result.v).ok
        /\ LET r == DeValidationResponse(result.v).v
           IN /\ r.accepted => (~r.message.some /\ ~r.code.some)
              /\ ~r.accepted => ~r.mutated_object.some
              /\ r.mutated_object.some => op = "mutate_request"

C8_Witness ==
    /\ op = "reject_request"
    /\ ~args.message.some
    /\ ~args.code.some
    /\ result.ok
    /\ DeValidationResponse(result.v).ok
    /\ ~DeValidationResponse(result.v).v.accepted

(* The payload read as a JSON document *)
Document(payload) == End(DeValue(payload))

(* A setting is present in an object payload when the object has a member of
   that name whose value is not null *)
Present(doc, name) ==
    \E i \in 1..Len(doc.obj) : doc.obj[i].key = name /\ doc.obj[i].val.t # "null"

(* C9: for the configuration type with the two optional settings of which
   exactly one must be set, a payload with both settings absent or both
   present yields valid = false with a non-empty message, and a payload with
   exactly one present yields valid = true with no message. *)
C9_MutualExclusion ==
    (/\ op = "validate_settings"
     /\ DeSettings(args.payload).ok
     /\ Document(args.payload).v.t = "obj") =>
        LET doc == Document(args.payload).v
            out == DeSettingsValidationResponse(result.v)
        IN /\ result.ok
           /\ out.ok
           /\ IF Present(doc, SettingsFields[1].name) = Present(doc, SettingsFields[2].name)
              THEN /\ out.v.valid = FALSE
                   /\ out.v.message.some
                   /\ out.v.message.v # <<>>
              ELSE out.v = SettingsValidationResponse(TRUE, None)

C9_Witness ==
    /\ op = "validate_settings"
    /\ Document(args.payload).ok
    /\ Document(args.payload).v.t = "obj"
    /\ Present(Document(args.payload).v, SettingsFields[1].name)
    /\ Present(Document(args.payload).v, SettingsFields[2].name)
    /\ result.ok
    /\ DeSettingsValidationResponse(result.v).ok
    /\ ~DeSettingsValidationResponse(result.v).v.valid

(* Equality of the arguments of two calls of one operation: HashMap == takes
   no account of the iteration order *)
SameArgs(c, d) ==
    IF c.op = "reject_request"
    THEN /\ c.args.message = d.args.message
         /\ c.args.code = d.args.code
         /\ MapOf(c.args.audit_annotations) = MapOf(d.args.audit_annotations)
         /\ c.args.warnings = d.args.warnings
    ELSE c.args = d.args

(* C10 as stated: in any sequence of calls, two calls of one operation with
   equal arguments return equal results, whatever calls preceded them. *)
C10_EqualArgsEqualResults ==
    \A i, j \in 1..Len(calls) :
        (calls[i].op = calls[j].op /\ SameArgs(calls[i], calls[j])) =>
            calls[i].result = calls[j].result

(* C10 amended: in any sequence of calls, two calls of one operation with
   equal arguments return the same bytes when the arguments are also the
   same in the iteration order of audit_annotations, whatever calls
   (successful or failed) preceded them; two calls of reject_request with
   equal arguments, whatever the iteration order of their maps, both succeed
   and return bytes that decode to the same response. *)
C10_EqualArgsEquivalentResults ==
    \A i, j \in 1..Len(calls) :
        (calls[i].op = calls[j].op /\ SameArgs(calls[i], calls[j])) =>
            /\ calls[i].args = calls[j].args =>
                   calls[i].result = calls[j].result
            /\ calls[i].op = "reject_request" =>
                   /\ calls[i].result.ok
                   /\ calls[j].result.ok
                   /\ DeValidationResponse(calls[i].result.v).ok
                   /\ DeValidationResponse(calls[i].result.v) =
                          DeValidationResponse(calls[j].result.v)

(* Two calls of reject_request with one map in its two iteration orders and a
   failed call of validate_settings between them *)
C10_Witness ==
    /\ Len(calls) = 3
    /\ calls[1].op = "reject_request"
    /\ calls[3].op = "reject_request"
    /\ SameArgs(calls[1], calls[3])
    /\ calls[1].args # calls[3].args
    /\ calls[1].result # calls[3].result
    /\ calls[2].op = "validate_settings"
    /\ ~calls[2].result.ok

====
